---- MODULE Spec2Model ----
(***************************************************************************)
(* A model of the logdb storage engine (memtable, SSTable set, sparse     *)
(* index, manifest, flush, compaction) and of the controller that wraps   *)
(* it behind a reader/writer lock and schedules background flushes.       *)
(*                                                                         *)
(* Keys are the integers 1..MaxKey (a key is one byte long and keys are   *)
(* ordered as the integers are); a value v in 1..MaxVal stands for a      *)
(* string of v bytes.  A data file is the sequence of its records, a      *)
(* record is <<key, slot>>, and byte offsets are computed from the        *)
(* records' encoded lengths.                                              *)
(*                                                                         *)
(* The engine is the Database of lib.rs: records are written by its       *)
(* write_record (key_len, val_len, key, value), and its delete removes    *)
(* the key from the memtable.  The merge is compact_sstable_set of        *)
(* compact.rs, read at the level of records; the tag byte that            *)
(* Record::write_to of record.rs puts before a record is not modelled.    *)
(* The engine's compact() and current_size follow the specification.      *)
(*                                                                         *)
(* The record codec of record.rs, the index file of sparse_index.rs and    *)
(* the readers of sstable_set.rs are modelled a second time at the level   *)
(* of bytes, and applied by themselves: SpecCodec, SpecLookup, SpecCorrupt, *)
(* SpecMerge, SpecBounds and SpecIndex each apply one function once to     *)
(* every input within the bounds, and SpecMergeSteps runs the merge one    *)
(* statement at a time.  SpecCancel is the engine with a flush that can be *)
(* cancelled.                                                              *)
(***************************************************************************)
EXTENDS Integers, Sequences, FiniteSets, TLC

\* ------------------------------------------------------------------ bounds
MaxKey == 2
MaxVal == 2
MaxSeq == 2
Stride == 2
FlushThreshold == 2
MaxClients == 2
MaxTasks == 2
MaxInputs == 3
MaxStrLen == 2
MaxTableKey == 4
MaxStride == 3

\* The largest offset of an index entry in the indexes bounds is applied to.
MaxOffset == 5

Keys   == 1..MaxKey
Values == 1..MaxVal
\* Every flush takes the next file number: the direct caller flushes while
\* last_sequence < MaxSeq, the controller once per task and once at shutdown.
FileNos == 1..(IF MaxSeq > MaxTasks + 1 THEN MaxSeq ELSE MaxTasks + 1)

\* ------------------------------------------------------- program constants
Tombstone == 255

VARIABLES
    memtable,       \* Database.memtable: set of <<key, value>>, one per key
    tables,         \* Database.sstable_set.tables: sequence of SSTable, newest first
    last_sequence,  \* Database.sstable_set.last_sequence
    data_files,     \* disk: file number -> [present, recs] for NNNNN.db
    index_files,    \* disk: file number -> [present, ents] for NNNNN.idx
    manifest,       \* disk: the MANIFEST file
    pc,             \* position of every process
    fl,             \* locals of the flush a process is running
    ret,            \* what the direct get or the shutdown that returned last, returned
    hist,           \* per key, the last value set and not deleted since
    pre,            \* engine state recorded when a flush or a compaction starts
    writer,         \* Controller.db: the process holding the write guard, or "none"
    readers,        \* Controller.db: the processes holding a read guard
    workers_lock,   \* Controller.workers: the process holding the mutex, or "none"
    workers,        \* Controller.workers: the tasks in the JoinSet
    is_shutdown,    \* Controller.is_shutdown
    cl,             \* locals of the controller call a client is running
    part,           \* disk: compact.db.part and compact.idx.part
    sd_runs,        \* how many shutdown calls went past the is_shutdown test
    io_err,         \* whether a file operation has failed so far
    input,          \* the arguments of the function applied last, by itself
    output          \* what that function returned

evars == <<memtable, tables, last_sequence, data_files, index_files, manifest>>
cvars == <<writer, readers, workers_lock, workers, is_shutdown, cl, sd_runs>>
disk  == <<data_files, index_files, manifest, part>>
vars  == <<memtable, tables, last_sequence, data_files, index_files, manifest,
           pc, fl, ret, hist, pre, writer, readers, workers_lock, workers,
           is_shutdown, cl, part, sd_runs, io_err, input, output>>

Main    == <<"main", 0>>
Clients == {<<"client", i>> : i \in 1..MaxClients}
Tasks   == {<<"task", i>> : i \in 1..MaxTasks}
Procs   == {Main} \cup Clients \cup Tasks
NoProc  == <<"none", 0>>

\* ---------------------------------------------------------------- results
None_    == <<"None", 0>>
Some_(v) == <<"Some", v>>
Err_     == <<"Err", 0>>
Panic_   == <<"Panic", 0>>
Ok_      == <<"Ok", 0>>

\* ------------------------------------------------------------ ordered maps
MapKeys(m) == {e[1] : e \in m}

MapGet(m, k) == IF k \in MapKeys(m) THEN Some_((CHOOSE e \in m : e[1] = k)[2]) ELSE None_

MapInsert(m, k, v) == {e \in m : e[1] # k} \cup {<<k, v>>}

MapRemove(m, k) == {e \in m : e[1] # k}

\* The entries of a map in ascending key order, as BTreeMap::into_iter yields them.
RECURSIVE MapFrom(_, _)
MapFrom(m, k) ==
    IF k > MaxKey THEN <<>>
    ELSE IF k \in MapKeys(m)
         THEN <<CHOOSE e \in m : e[1] = k>> \o MapFrom(m, k + 1)
         ELSE MapFrom(m, k + 1)

IntoIter(m) == MapFrom(m, 1)

\* --------------------------------------------------------------- records
KeyLen(k) == 1

ValLen(v) == IF v = Tombstone THEN 0 ELSE v

\* Bytes emitted by write_record: two u16 lengths, the key, the value.
RecordLen(r) == 2 + 2 + KeyLen(r[1]) + ValLen(r[2])

RECURSIVE OffsetOf(_, _)
\* Byte offset at which record i (1-based) of a data file begins.
OffsetOf(recs, i) == IF i <= 1 THEN 0 ELSE OffsetOf(recs, i - 1) + RecordLen(recs[i - 1])

FileLen(recs) == OffsetOf(recs, Len(recs) + 1)

\* The record that begins at a byte offset: its position, or 0 when the
\* offset is the end of the file or is not a record boundary.
RecordAt(recs, off) ==
    IF \E i \in 1..Len(recs) : OffsetOf(recs, i) = off
    THEN CHOOSE i \in 1..Len(recs) : OffsetOf(recs, i) = off
    ELSE 0

Prefix(s, n) == SubSeq(s, 1, n)


\* ----------------------------------------------------------- sparse index
\* The index flush builds while it writes: record i (0-based) is indexed
\* when i % stride = 0, under the offset at which it begins.
FlushIndexOf(recs) ==
    {<<recs[i][1], OffsetOf(recs, i)>> : i \in {j \in 1..Len(recs) : (j - 1) % Stride = 0}}

\* write_sparse_index: the entries in key order.
IndexToFile(index) == IntoIter(index)

\* read_sparse_index: every entry read is inserted in the map.
RECURSIVE IndexFromFile(_)
IndexFromFile(ents) ==
    IF ents = <<>> THEN {}
    ELSE MapInsert(IndexFromFile(Prefix(ents, Len(ents) - 1)),
                   ents[Len(ents)][1], ents[Len(ents)][2])

\* The smallest element, where the largest is meant.
MaxAsMin(S) == CHOOSE x \in S : \A y \in S : x <= y

Max(S) == CHOOSE x \in S : \A y \in S : y <= x
Min(S) == CHOOSE x \in S : \A y \in S : x <= y

OffsetIn(index, k) == (CHOOSE e \in index : e[1] = k)[2]

\* sparse_index::bounds
bounds(index, key) ==
    LET ups == {k \in MapKeys(index) : k >= key}
        los == {k \in MapKeys(index) : k <= key}
    IN  IF los # {} /\ ups # {}
        THEN IF OffsetIn(index, Max(los)) = OffsetIn(index, Min(ups))
             THEN [kind |-> "Exact", start |-> OffsetIn(index, Max(los)), end |-> -1]
             ELSE [kind |-> "Range", start |-> OffsetIn(index, Max(los)),
                   end |-> OffsetIn(index, Min(ups))]
        ELSE IF los # {}
        THEN [kind |-> "ToEnd", start |-> OffsetIn(index, Max(los)), end |-> -1]
        ELSE IF ups # {}
        THEN [kind |-> "FromBegin", start |-> -1, end |-> OffsetIn(index, Min(ups))]
        ELSE [kind |-> "Panic", start |-> -1, end |-> -1]

\* ------------------------------------------------------------ point lookup
\* Database::read_exact: the record at the offset, an error at end of file.
read_exact(recs, offset) ==
    IF RecordAt(recs, offset) = 0 THEN Err_ ELSE Some_(recs[RecordAt(recs, offset)])

RECURSIVE ScanLoop(_, _, _, _, _)
\* The loop of Database::scan_range; hasEnd = FALSE stands for end = u64::MAX.
ScanLoop(recs, key, offset, hasEnd, end) ==
    IF hasEnd /\ offset > end THEN None_
    ELSE IF offset >= FileLen(recs) THEN None_
    ELSE IF RecordAt(recs, offset) = 0 THEN Err_
    ELSE LET r == recs[RecordAt(recs, offset)]
         IN  IF r[1] = key THEN Some_(r[2])
             ELSE ScanLoop(recs, key, offset + RecordLen(r), hasEnd, end)

\* Database::scan_range
scan_range(recs, key, hasStart, start, hasEnd, end) ==
    ScanLoop(recs, key, IF hasStart THEN start ELSE 0, hasEnd, end)

\* Database::seek_and_read on the data file of a table
seek_and_read(file, key, range) ==
    IF ~file.present THEN Err_
    ELSE IF range.kind = "Exact"
    THEN LET rd == read_exact(file.recs, range.start)
         IN  IF rd = Err_ THEN Err_
             ELSE IF rd[2][1] # key THEN Panic_
             ELSE Some_(rd[2][2])
    ELSE IF range.kind = "FromBegin"
    THEN scan_range(file.recs, key, FALSE, 0, TRUE, range.end)
    ELSE IF range.kind = "ToEnd"
    THEN scan_range(file.recs, key, TRUE, range.start, FALSE, 0)
    ELSE scan_range(file.recs, key, TRUE, range.start, TRUE, range.end)

RECURSIVE GetTables(_, _, _, _)
\* The loop of Database::get over the tables, newest first.
GetTables(tbs, files, key, i) ==
    IF i > Len(tbs) THEN None_
    ELSE LET range == bounds(tbs[i].index, key)
         IN  IF range.kind = "Panic" THEN Panic_
             ELSE LET read == seek_and_read(files[tbs[i].data_path], key, range)
                  IN  IF read = None_ THEN GetTables(tbs, files, key, i + 1)
                      ELSE read

\* Database::get on an engine with the given memtable, tables and data files
GetIn(mem, tbs, files, key) ==
    IF MapGet(mem, key) # None_ THEN MapGet(mem, key)
    ELSE GetTables(tbs, files, key, 1)

get(key) == GetIn(memtable, tables, data_files, key)


\* MemValue::to_value: a value is handed out, a tombstone is absent.
to_value(v) == IF v = Tombstone THEN None_ ELSE Some_(v)

\* ---------------------------------------------------------------- manifest
NoFile == [present |-> FALSE, recs |-> <<>>]
NoIndexFile == [present |-> FALSE, ents |-> <<>>]

\* A manifest that names no table.
ManifestNewWithoutTables(tbs, seq) ==
    [complete |-> TRUE, last_sequence |-> seq, sstables |-> <<>>]

\* Manifest::new
ManifestNew(tbs, seq) ==
    [complete |-> TRUE, last_sequence |-> seq,
     sstables |-> [i \in 1..Len(tbs) |->
                     [data_path |-> tbs[i].data_path, index_path |-> tbs[i].index_path]]]

\* The MANIFEST file as File::create leaves it: empty.
TruncatedManifest == [complete |-> FALSE, last_sequence |-> 0, sstables |-> <<>>]

\* ------------------------------------------------------------------- state
NoPart == [present |-> FALSE, recs |-> <<>>, ents |-> <<>>]
NoFlush == [next_sequence |-> 0, recs |-> <<>>, index |-> {}, res |-> None_]
NoPre == [get |-> [k \in Keys |-> None_], memtable |-> {}, tables |-> <<>>,
          last_sequence |-> 0, manifest |-> TruncatedManifest,
          data_files |-> <<>>, index_files |-> <<>>]
NoRet == <<"none", 0, None_>>
NoCall == [op |-> "none", key |-> 0, spawned |-> {}]
NoInput == <<"none">>
NoOutput == <<"none">>

\* DatabaseImpl.current_size: the bytes of the memtable's keys and values.
RECURSIVE SizeOf(_)
SizeOf(m) ==
    IF m = {} THEN 0
    ELSE LET e == CHOOSE x \in m : TRUE
         IN  KeyLen(e[1]) + ValLen(e[2]) + SizeOf(m \ {e})

current_size == SizeOf(memtable)

Snapshot == [get |-> [k \in Keys |-> get(k)], memtable |-> memtable, tables |-> tables,
             last_sequence |-> last_sequence, manifest |-> manifest,
             data_files |-> <<>>, index_files |-> <<>>]

\* The same with the files a compaction reads and deletes.
SnapshotWithFiles ==
    [Snapshot EXCEPT !.data_files = data_files, !.index_files = index_files]

\* Database::build on an empty data directory with create_if_missing, then
\* Controller::new.
Init ==
    /\ memtable = {}
    /\ tables = <<>>
    /\ last_sequence = 0
    /\ data_files = [n \in FileNos |-> NoFile]
    /\ index_files = [n \in FileNos |-> NoIndexFile]
    /\ manifest = ManifestNew(<<>>, 0)
    /\ pc = [p \in Procs |-> "idle"]
    /\ fl = [p \in Procs |-> NoFlush]
    /\ ret = NoRet
    /\ hist = [k \in Keys |-> None_]
    /\ pre = NoPre
    /\ writer = NoProc
    /\ readers = {}
    /\ workers_lock = NoProc
    /\ workers = {}
    /\ is_shutdown = FALSE
    /\ cl = [p \in Clients |-> NoCall]
    /\ part = NoPart
    /\ sd_runs = 0
    /\ io_err = FALSE
    /\ input = NoInput
    /\ output = NoOutput

\* ------------------------------------------------------------ engine calls
\* Database::set
DbSet(k, v) ==
    /\ memtable' = MapInsert(memtable, k, v)
    /\ hist' = [hist EXCEPT ![k] = Some_(v)]

\* Database::delete
DbDelete(k) ==
    /\ memtable' = MapRemove(memtable, k)
    /\ hist' = [hist EXCEPT ![k] = None_]

\* ------------------------------------------------------------------- flush
\* Database::flush, one action per suspension point.  A process enters with
\* pc = "fl_start" and leaves with pc = "fl_ret" and the result in fl[p].res.
FlushEnter(p) ==
    /\ pc' = [pc EXCEPT ![p] = "fl_start"]
    /\ fl' = [fl EXCEPT ![p] = [NoFlush EXCEPT !.next_sequence = last_sequence + 1]]
    /\ pre' = Snapshot

FlushFail(p) ==
    /\ pc' = [pc EXCEPT ![p] = "fl_ret"]
    /\ fl' = [fl EXCEPT ![p].res = Err_]
    /\ io_err' = TRUE

\* File::create of the data file (lib.rs 92-93)
FlushCreateData(p) ==
    /\ pc[p] = "fl_start"
    /\ \/ /\ data_files' = [data_files EXCEPT ![fl[p].next_sequence] =
                               [present |-> TRUE, recs |-> <<>>]]
          /\ pc' = [pc EXCEPT ![p] = "fl_data"]
          /\ fl' = fl
          /\ io_err' = io_err
       \/ /\ FlushFail(p)
          /\ data_files' = data_files
    /\ UNCHANGED <<memtable, tables, last_sequence, index_files, manifest, ret, hist, pre>>
    /\ UNCHANGED <<cvars, part>>
    /\ UNCHANGED <<input, output>>

\* File::create of the index file (lib.rs 94-95)
FlushCreateIndex(p) ==
    /\ pc[p] = "fl_data"
    /\ \/ /\ index_files' = [index_files EXCEPT ![fl[p].next_sequence] =
                                [present |-> TRUE, ents |-> <<>>]]
          /\ pc' = [pc EXCEPT ![p] = "fl_idx"]
          /\ fl' = fl
          /\ io_err' = io_err
       \/ /\ FlushFail(p)
          /\ index_files' = index_files
    /\ UNCHANGED <<memtable, tables, last_sequence, data_files, manifest, ret, hist, pre>>
    /\ UNCHANGED <<cvars, part>>
    /\ UNCHANGED <<input, output>>

\* The memtable is taken and its records go to the buffered data writer
\* (lib.rs 97-114).  A failed write returns the error; the part of the
\* buffer that reached the file stays there.
FlushDrain(p) ==
    /\ pc[p] = "fl_idx"
    /\ memtable' = {}
    /\ LET recs == IntoIter(memtable)
       IN  \/ /\ fl' = [fl EXCEPT ![p].recs = recs, ![p].index = FlushIndexOf(recs)]
              /\ io_err' = io_err
              /\ pc' = [pc EXCEPT ![p] = "fl_drained"]
              /\ data_files' = data_files
           \/ /\ recs # <<>>
              /\ \E n \in 0..(Len(recs) - 1) :
                   data_files' = [data_files EXCEPT ![fl[p].next_sequence].recs =
                                     Prefix(recs, n)]
              /\ FlushFail(p)
    /\ UNCHANGED <<tables, last_sequence, index_files, manifest, ret, hist, pre>>
    /\ UNCHANGED <<cvars, part>>
    /\ UNCHANGED <<input, output>>

\* The new table put after the tables of the set.
RegisterLast(tbs, t) == Append(tbs, t)

\* self.sstable_set.tables.insert(0, ..) (lib.rs 124-131)
Register(tbs, t) == <<t>> \o tbs

\* The data writer is flushed and the index written (lib.rs 116-121); when
\* one of the two fails, each file holds all or nothing of its content.  On
\* success the table is put at position 0 of the set and last_sequence is
\* advanced (lib.rs 124-132), with no suspension point in between.
FlushSync(p) ==
    /\ pc[p] = "fl_drained"
    /\ LET n == fl[p].next_sequence
           ents == IndexToFile(fl[p].index)
       IN  \/ /\ data_files' = [data_files EXCEPT ![n].recs = fl[p].recs]
              /\ index_files' = [index_files EXCEPT ![n].ents = ents]
              /\ tables' = Register(tables,
                                     [index |-> fl[p].index, data_path |-> n, index_path |-> n])
              /\ last_sequence' = n
              /\ pc' = [pc EXCEPT ![p] = "fl_registered"]
              /\ fl' = fl
              /\ io_err' = io_err
           \/ /\ \E d \in {0, Len(fl[p].recs)}, x \in {0, Len(ents)} :
                    /\ d < Len(fl[p].recs) \/ x < Len(ents)
                    /\ data_files' = [data_files EXCEPT ![n].recs = Prefix(fl[p].recs, d)]
                    /\ index_files' = [index_files EXCEPT ![n].ents = Prefix(ents, x)]
              /\ FlushFail(p)
              /\ UNCHANGED <<tables, last_sequence>>
    /\ UNCHANGED <<memtable, manifest, ret, hist, pre>>
    /\ UNCHANGED <<cvars, part>>
    /\ UNCHANGED <<input, output>>

\* File::create of MANIFEST (lib.rs 138): the file is emptied.
FlushManifestCreate(p) ==
    /\ pc[p] = "fl_registered"
    /\ \/ /\ manifest' = TruncatedManifest
          /\ pc' = [pc EXCEPT ![p] = "fl_manifest"]
          /\ fl' = fl
          /\ io_err' = io_err
       \/ /\ FlushFail(p)
          /\ manifest' = manifest
    /\ UNCHANGED <<memtable, tables, last_sequence, data_files, index_files, ret, hist, pre>>
    /\ UNCHANGED <<cvars, part>>
    /\ UNCHANGED <<input, output>>

\* write_manifest (manifest.rs 39-52): the document is written and flushed.
FlushManifestWrite(p) ==
    /\ pc[p] = "fl_manifest"
    /\ \/ /\ manifest' = ManifestNew(tables, last_sequence)
          /\ pc' = [pc EXCEPT ![p] = "fl_ret"]
          /\ fl' = [fl EXCEPT ![p].res = Ok_]
          /\ io_err' = io_err
       \/ /\ FlushFail(p)
          /\ manifest' = manifest
    /\ UNCHANGED <<memtable, tables, last_sequence, data_files, index_files, ret, hist, pre>>
    /\ UNCHANGED <<cvars, part>>
    /\ UNCHANGED <<input, output>>

FlushStep(p) ==
    \/ FlushCreateData(p)
    \/ FlushCreateIndex(p)
    \/ FlushDrain(p)
    \/ FlushSync(p)
    \/ FlushManifestCreate(p)
    \/ FlushManifestWrite(p)


\* ------------------------------------------------------------------- merge
\* compact_sstable_set.  inputs[t] is the record sequence of table t (1 is
\* the newest), pos[t] the number of records read from it, and the heap a
\* set of <<key, priority, value>>.
\* The heap ordered by key and then by the highest priority first.
HeapTopOldestFirst(heap) ==
    CHOOSE e \in heap : \A f \in heap : e[1] < f[1] \/ (e[1] = f[1] /\ e[2] >= f[2])

HeapTop(heap) ==
    CHOOSE e \in heap : \A f \in heap : e[1] < f[1] \/ (e[1] = f[1] /\ e[2] <= f[2])

\* What a reader meets in place of a record when the bytes there are
\* truncated or malformed.
Corrupt == <<0, 0>>

\* Record::read_from on a reader at record pos of its input: an error at the
\* end of the input and on a truncated or malformed record alike.
ReadNext(recs, pos) ==
    IF pos < Len(recs) /\ recs[pos + 1] # Corrupt
    THEN [ok |-> TRUE, record |-> recs[pos + 1]]
    ELSE [ok |-> FALSE, record |-> Corrupt]

\* Record::read_from on reader t, pushed on the heap when a record is read.
Refill(inputs, pos, heap, t) ==
    IF ReadNext(inputs[t], pos[t]).ok
    THEN [pos |-> [pos EXCEPT ![t] = pos[t] + 1],
          heap |-> heap \cup {<<inputs[t][pos[t] + 1][1], t, inputs[t][pos[t] + 1][2]>>}]
    ELSE [pos |-> pos, heap |-> heap]

RECURSIVE MergeInit(_, _, _, _)
\* The first record of every input is pushed (compact.rs 42-53).
MergeInit(inputs, pos, heap, t) ==
    IF t > Len(inputs) THEN [pos |-> pos, heap |-> heap]
    ELSE LET r == Refill(inputs, pos, heap, t)
         IN  MergeInit(inputs, r.pos, r.heap, t + 1)

RECURSIVE MergeDrain(_, _, _, _)
\* Entries with the key of the popped entry are discarded and their readers
\* refilled (compact.rs 59-72).
MergeDrain(inputs, pos, heap, key) ==
    IF heap = {} \/ HeapTop(heap)[1] # key THEN [pos |-> pos, heap |-> heap]
    ELSE LET next == HeapTop(heap)
             r == Refill(inputs, pos, heap \ {next}, next[2])
         IN  MergeDrain(inputs, r.pos, r.heap, key)

RECURSIVE MergeLoop(_, _, _, _, _, _, _)
\* The main loop (compact.rs 55-97).
MergeLoop(inputs, pos, heap, out, index, offset, i) ==
    IF heap = {} THEN [res |-> Ok_, recs |-> out, index |-> index]
    ELSE LET entry == HeapTop(heap)
             d == MergeDrain(inputs, pos, heap \ {entry}, entry[1])
             emit == entry[3] # Tombstone
             record == <<entry[1], entry[3]>>
             index1 == IF emit /\ i % Stride = 0
                       THEN MapInsert(index, entry[1], offset) ELSE index
             r == Refill(inputs, d.pos, d.heap, entry[2])
         IN  MergeLoop(inputs, r.pos, r.heap,
                       IF emit THEN Append(out, record) ELSE out,
                       index1,
                       IF emit THEN offset + RecordLen(record) ELSE offset,
                       IF emit THEN i + 1 ELSE i)

compact_sstable_set(inputs) ==
    LET m == MergeInit(inputs, [t \in 1..Len(inputs) |-> 0], {}, 1)
    IN  MergeLoop(inputs, m.pos, m.heap, <<>>, {}, 0, 0)


\* -------------------------------------------------------------- compaction
\* The engine's compact(), steps 1-7 of the design; the merge is
\* compact_sstable_set.  A process enters with pc = "cp_start" and leaves
\* with pc = "cp_ret" and the result in fl[p].res.
CompactFail(p) ==
    /\ pc' = [pc EXCEPT ![p] = "cp_ret"]
    /\ fl' = [fl EXCEPT ![p].res = Err_]
    /\ io_err' = TRUE

InputsPresent == \A i \in 1..Len(tables) : data_files[tables[i].data_path].present

\* Steps 1-3: the part files are created, the merge runs, the index is
\* written and both are flushed.  An output without a record is not
\* registered.
CompactMerge(p) ==
    /\ pc[p] = "cp_start"
    /\ \/ /\ InputsPresent
          /\ LET out == compact_sstable_set(
                            [i \in 1..Len(tables) |-> data_files[tables[i].data_path].recs])
             IN  /\ part' = [present |-> TRUE, recs |-> out.recs,
                             ents |-> IndexToFile(out.index)]
                 /\ IF out.index = {}
                    THEN CompactFail(p)
                    ELSE /\ pc' = [pc EXCEPT ![p] = "cp_merged"]
                         /\ fl' = [fl EXCEPT ![p].index = out.index]
                         /\ io_err' = io_err
       \/ /\ part' = [present |-> TRUE, recs |-> <<>>, ents |-> <<>>]
          /\ CompactFail(p)
    /\ UNCHANGED <<memtable, tables, last_sequence, data_files, index_files, manifest,
                   ret, hist, pre, cvars>>
    /\ UNCHANGED <<input, output>>

\* Step 4: every input data and index file is deleted.
CompactDelete(p) ==
    /\ pc[p] = "cp_merged"
    /\ \/ /\ LET gone == {tables[i].data_path : i \in 1..Len(tables)}
             IN  /\ data_files' = [n \in FileNos |->
                                     IF n \in gone THEN NoFile ELSE data_files[n]]
                 /\ index_files' = [n \in FileNos |->
                                      IF n \in gone THEN NoIndexFile ELSE index_files[n]]
          /\ pc' = [pc EXCEPT ![p] = "cp_deleted"]
          /\ fl' = fl
          /\ io_err' = io_err
       \/ /\ CompactFail(p)
          /\ UNCHANGED <<data_files, index_files>>
    /\ UNCHANGED <<memtable, tables, last_sequence, manifest, part, ret, hist, pre, cvars>>
    /\ UNCHANGED <<input, output>>

\* Steps 5-6: the part files are renamed to 00001.db and 00001.idx, the set
\* becomes that one table and last_sequence becomes 1.
CompactRename(p) ==
    /\ pc[p] = "cp_deleted"
    /\ \/ /\ data_files' = [data_files EXCEPT ![1] = [present |-> TRUE, recs |-> part.recs]]
          /\ index_files' = [index_files EXCEPT ![1] = [present |-> TRUE, ents |-> part.ents]]
          /\ part' = NoPart
          /\ tables' = <<[index |-> fl[p].index, data_path |-> 1, index_path |-> 1]>>
          /\ last_sequence' = 1
          /\ pc' = [pc EXCEPT ![p] = "cp_registered"]
          /\ fl' = fl
          /\ io_err' = io_err
       \/ /\ CompactFail(p)
          /\ UNCHANGED <<data_files, index_files, part, tables, last_sequence>>
    /\ UNCHANGED <<memtable, manifest, ret, hist, pre, cvars>>
    /\ UNCHANGED <<input, output>>

\* Step 7: the manifest is rewritten: created empty, then written.
CompactManifestCreate(p) ==
    /\ pc[p] = "cp_registered"
    /\ \/ /\ manifest' = TruncatedManifest
          /\ pc' = [pc EXCEPT ![p] = "cp_manifest"]
          /\ fl' = fl
          /\ io_err' = io_err
       \/ /\ CompactFail(p)
          /\ manifest' = manifest
    /\ UNCHANGED <<memtable, tables, last_sequence, data_files, index_files, part,
                   ret, hist, pre, cvars>>
    /\ UNCHANGED <<input, output>>

CompactManifestWrite(p) ==
    /\ pc[p] = "cp_manifest"
    /\ \/ /\ manifest' = ManifestNew(tables, last_sequence)
          /\ pc' = [pc EXCEPT ![p] = "cp_ret"]
          /\ fl' = [fl EXCEPT ![p].res = Ok_]
          /\ io_err' = io_err
       \/ /\ CompactFail(p)
          /\ manifest' = manifest
    /\ UNCHANGED <<memtable, tables, last_sequence, data_files, index_files, part,
                   ret, hist, pre, cvars>>
    /\ UNCHANGED <<input, output>>

CompactStep(p) ==
    \/ CompactMerge(p)
    \/ CompactDelete(p)
    \/ CompactRename(p)
    \/ CompactManifestCreate(p)
    \/ CompactManifestWrite(p)

\* ---------------------------------------------------- the engine, directly
\* One caller owns the engine and calls it without the controller.
MainSet(k, v) ==
    /\ pc[Main] = "idle"
    /\ DbSet(k, v)
    /\ ret' = NoRet
    /\ UNCHANGED <<tables, last_sequence, disk, io_err, pc, fl, pre, cvars>>
    /\ UNCHANGED <<input, output>>

MainDelete(k) ==
    /\ pc[Main] = "idle"
    /\ DbDelete(k)
    /\ ret' = NoRet
    /\ UNCHANGED <<tables, last_sequence, disk, io_err, pc, fl, pre, cvars>>
    /\ UNCHANGED <<input, output>>

MainGet(k) ==
    /\ pc[Main] = "idle"
    /\ ret' = <<"get", k, get(k)>>
    /\ UNCHANGED <<evars, part, io_err, pc, fl, hist, pre, cvars>>
    /\ UNCHANGED <<input, output>>

MainFlush ==
    /\ pc[Main] = "idle"
    /\ last_sequence < MaxSeq
    /\ FlushEnter(Main)
    /\ ret' = NoRet
    /\ UNCHANGED <<evars, part, io_err, hist, cvars>>
    /\ UNCHANGED <<input, output>>

MainFlushReturn ==
    /\ pc[Main] = "fl_ret"
    /\ ret' = NoRet
    /\ pc' = [pc EXCEPT ![Main] = "idle"]
    /\ fl' = [fl EXCEPT ![Main] = NoFlush]
    /\ pre' = NoPre
    /\ UNCHANGED <<evars, part, io_err, hist, cvars>>
    /\ UNCHANGED <<input, output>>

\* compact() that merges whatever the number of tables.
MainCompactAlways ==
    /\ pc[Main] = "idle"
    /\ pc' = [pc EXCEPT ![Main] = "cp_start"]
    /\ pre' = SnapshotWithFiles
    /\ ret' = NoRet
    /\ UNCHANGED <<evars, part, io_err, fl, hist, cvars>>
    /\ UNCHANGED <<input, output>>

\* compact(): with fewer than two tables the call returns at once.
MainCompact ==
    /\ pc[Main] = "idle"
    /\ IF Len(tables) >= 2
       THEN /\ pc' = [pc EXCEPT ![Main] = "cp_start"]
            /\ pre' = SnapshotWithFiles
            /\ ret' = NoRet
       ELSE /\ ret' = <<"compact", 0, Ok_>>
            /\ UNCHANGED <<pc, pre>>
    /\ UNCHANGED <<evars, part, io_err, fl, hist, cvars>>
    /\ UNCHANGED <<input, output>>

MainCompactReturn ==
    /\ pc[Main] = "cp_ret"
    /\ ret' = NoRet
    /\ pc' = [pc EXCEPT ![Main] = "idle"]
    /\ fl' = [fl EXCEPT ![Main] = NoFlush]
    /\ pre' = NoPre
    /\ UNCHANGED <<evars, part, io_err, hist, cvars>>
    /\ UNCHANGED <<input, output>>

EngineNext ==
    \/ \E k \in Keys, v \in Values : MainSet(k, v)
    \/ \E k \in Keys : MainDelete(k)
    \/ \E k \in Keys : MainGet(k)
    \/ MainFlush
    \/ FlushStep(Main)
    \/ MainFlushReturn
    \/ MainCompact
    \/ CompactStep(Main)
    \/ MainCompactReturn

SpecEngine == Init /\ [][EngineNext]_vars


\* -------------------------------------------------------------- controller
\* The write guard handed out while read guards are out.
CanWriteIgnoringReaders == writer = NoProc

\* RwLock::write on Controller.db
CanWrite == writer = NoProc /\ readers = {}

\* RwLock::read on Controller.db
CanRead == writer = NoProc

\* Mutex::lock on Controller.workers
CanLockWorkers == workers_lock = NoProc

\* The flag read as unset by every caller.
AlreadyShutdownNever == FALSE

\* is_shutdown.swap(true): the value it returns
AlreadyShutdown == is_shutdown

FreeTasks == {t \in Tasks : pc[t] = "idle"}

\* join_next returning a task that has not run to its end.
TaskFinishedOrNot(t) == TRUE

\* What join_next waits for: the task has run to its end.
TaskFinished(t) == pc[t] = "t_done"

\* A threshold that is reached counts as exceeded.
OverThresholdOrEqual(size) == size >= FlushThreshold

\* db.current_size > self.flush_threshold (controller.rs 71, 85)
OverThreshold(size) == size > FlushThreshold

\* Controller::get: the read guard is taken ...
CtlGet(p, k) ==
    /\ pc[p] = "idle"
    /\ CanRead
    /\ readers' = readers \cup {p}
    /\ pc' = [pc EXCEPT ![p] = "get_held"]
    /\ cl' = [cl EXCEPT ![p] = [NoCall EXCEPT !.op = "get", !.key = k]]
    /\ UNCHANGED <<evars, part, io_err, fl, ret, hist, pre, writer, workers_lock, workers,
                   is_shutdown, sd_runs>>
    /\ UNCHANGED <<input, output>>

\* ... and Database::get runs under it; the call returns get(cl[p].key).
CtlGetReturn(p) ==
    /\ pc[p] = "get_held"
    /\ readers' = readers \ {p}
    /\ pc' = [pc EXCEPT ![p] = "idle"]
    /\ cl' = [cl EXCEPT ![p] = NoCall]
    /\ UNCHANGED <<evars, part, io_err, fl, ret, hist, pre, writer, workers_lock, workers,
                   is_shutdown, sd_runs>>
    /\ UNCHANGED <<input, output>>

\* Controller::set and Controller::delete: the write guard is taken, the
\* engine changed and current_size tested against the threshold; there is
\* no suspension point up to the workers mutex, nor up to the return when no
\* task is to be spawned.
CtlWrite(p, op, k, v) ==
    /\ pc[p] = "idle"
    /\ FreeTasks # {}
    /\ CanWrite
    /\ IF op = "set" THEN DbSet(k, v) ELSE DbDelete(k)
    /\ IF OverThreshold(SizeOf(memtable'))
       THEN /\ pc' = [pc EXCEPT ![p] = "w_spawn"]
            /\ writer' = p
            /\ cl' = [cl EXCEPT ![p] = [NoCall EXCEPT !.op = "write"]]
       ELSE /\ pc' = pc
            /\ writer' = NoProc
            /\ cl' = [cl EXCEPT ![p] = NoCall]
    /\ UNCHANGED <<tables, last_sequence, disk, io_err, fl, ret, pre, readers, workers_lock,
                   workers, is_shutdown, sd_runs>>
    /\ UNCHANGED <<input, output>>

\* ... and a flush task is put in the JoinSet under the workers mutex, the
\* write guard still held; the call then returns.
CtlSpawn(p) ==
    /\ pc[p] = "w_spawn"
    /\ CanLockWorkers
    /\ LET t == CHOOSE x \in FreeTasks : \A y \in FreeTasks : x[2] <= y[2]
       IN  /\ workers' = workers \cup {t}
           /\ pc' = [pc EXCEPT ![p] = "idle", ![t] = "t_wait"]
    /\ writer' = NoProc
    /\ cl' = [cl EXCEPT ![p] = NoCall]
    /\ UNCHANGED <<evars, part, io_err, fl, ret, hist, pre, readers, workers_lock,
                   is_shutdown, sd_runs>>
    /\ UNCHANGED <<input, output>>

\* The spawned task: db_clone.write().await.flush().await
TaskAcquire(t) ==
    /\ pc[t] = "t_wait"
    /\ CanWrite
    /\ writer' = t
    /\ FlushEnter(t)
    /\ UNCHANGED <<evars, part, io_err, ret, hist, readers, workers_lock, workers,
                   is_shutdown, cl, sd_runs>>
    /\ UNCHANGED <<input, output>>

\* The result of the flush is dropped and the guard released.
TaskFinish(t) ==
    /\ pc[t] = "fl_ret"
    /\ writer' = NoProc
    /\ pc' = [pc EXCEPT ![t] = "t_done"]
    /\ fl' = [fl EXCEPT ![t] = NoFlush]
    /\ pre' = NoPre
    /\ UNCHANGED <<evars, part, io_err, ret, hist, readers, workers_lock, workers,
                   is_shutdown, cl, sd_runs>>
    /\ UNCHANGED <<input, output>>

\* Controller::shutdown is called.
CtlShutdown(p) ==
    /\ pc[p] = "idle"
    /\ pc' = [pc EXCEPT ![p] = "sd_call"]
    /\ cl' = [cl EXCEPT ![p] = [NoCall EXCEPT !.op = "shutdown",
                                              !.spawned = Tasks \ FreeTasks]]
    /\ UNCHANGED <<evars, part, io_err, fl, ret, hist, pre, writer, readers, workers_lock,
                   workers, is_shutdown, sd_runs>>
    /\ UNCHANGED <<input, output>>

\* The is_shutdown test (controller.rs 36-39).
ShutdownSwap(p) ==
    /\ pc[p] = "sd_call"
    /\ is_shutdown' = TRUE
    /\ IF AlreadyShutdown
       THEN /\ pc' = [pc EXCEPT ![p] = "idle"]
            /\ cl' = [cl EXCEPT ![p] = NoCall]
            /\ ret' = <<"shutdown", 0, Ok_>>
            /\ sd_runs' = sd_runs
       ELSE /\ pc' = [pc EXCEPT ![p] = "sd_lock"]
            /\ sd_runs' = sd_runs + 1
            /\ UNCHANGED <<cl, ret>>
    /\ UNCHANGED <<evars, part, io_err, fl, hist, pre, writer, readers, workers_lock, workers>>
    /\ UNCHANGED <<input, output>>

\* self.workers.lock().await (controller.rs 41-44)
ShutdownLock(p) ==
    /\ pc[p] = "sd_lock"
    /\ CanLockWorkers
    /\ workers_lock' = p
    /\ pc' = [pc EXCEPT ![p] = IF Cardinality(workers) > 0 THEN "sd_join" ELSE "sd_write"]
    /\ UNCHANGED <<evars, part, io_err, fl, ret, hist, pre, writer, readers, workers,
                   is_shutdown, cl, sd_runs>>
    /\ UNCHANGED <<input, output>>

\* workers.join_next().await: a finished task leaves the JoinSet; the loop
\* ends when the set is empty (controller.rs 46-50).
ShutdownJoin(p) ==
    /\ pc[p] = "sd_join"
    /\ \E t \in workers :
         /\ TaskFinished(t)
         /\ workers' = workers \ {t}
         /\ pc' = [pc EXCEPT ![p] = IF workers \ {t} = {} THEN "sd_write" ELSE "sd_join"]
    /\ UNCHANGED <<evars, part, io_err, fl, ret, hist, pre, writer, readers, workers_lock,
                   is_shutdown, cl, sd_runs>>
    /\ UNCHANGED <<input, output>>

\* self.db.write().await and the final flush of a memtable that holds
\* entries (controller.rs 54-58).
ShutdownWrite(p) ==
    /\ pc[p] = "sd_write"
    /\ CanWrite
    /\ writer' = p
    /\ IF Cardinality(memtable) > 0
       THEN FlushEnter(p)
       ELSE /\ pc' = [pc EXCEPT ![p] = "sd_ret"]
            /\ fl' = [fl EXCEPT ![p].res = Ok_]
            /\ pre' = Snapshot
    /\ UNCHANGED <<evars, part, io_err, ret, hist, readers, workers_lock, workers,
                   is_shutdown, cl, sd_runs>>
    /\ UNCHANGED <<input, output>>

\* shutdown returns the result and both guards are dropped.
ShutdownReturn(p) ==
    /\ pc[p] \in {"sd_ret", "fl_ret"}
    /\ writer' = NoProc
    /\ workers_lock' = NoProc
    /\ pc' = [pc EXCEPT ![p] = "idle"]
    /\ cl' = [cl EXCEPT ![p] = NoCall]
    /\ ret' = <<"shutdown", 0, fl[p].res>>
    /\ fl' = [fl EXCEPT ![p] = NoFlush]
    /\ pre' = NoPre
    /\ UNCHANGED <<evars, part, io_err, hist, readers, workers, is_shutdown, sd_runs>>
    /\ UNCHANGED <<input, output>>

ClientStep(p) ==
    \/ \E k \in Keys : CtlGet(p, k)
    \/ CtlGetReturn(p)
    \/ \E k \in Keys, v \in Values : CtlWrite(p, "set", k, v)
    \/ \E k \in Keys : CtlWrite(p, "delete", k, 0)
    \/ CtlSpawn(p)
    \/ CtlShutdown(p)
    \/ ShutdownSwap(p)
    \/ ShutdownLock(p)
    \/ ShutdownJoin(p)
    \/ ShutdownWrite(p)
    \/ ShutdownReturn(p)
    \/ FlushStep(p)

TaskStep(t) ==
    \/ TaskAcquire(t)
    \/ FlushStep(t)
    \/ TaskFinish(t)

CtlNext ==
    \/ \E p \in Clients : ClientStep(p)
    \/ \E t \in Tasks : TaskStep(t)

SpecCtl == Init /\ [][CtlNext]_vars

\* ------------------------------------------------------------------- build
\* Database::build on the data directory as it is, with SSTableSet::build:
\* the manifest is parsed, and the index of every table it names is loaded.
build ==
    IF ~manifest.complete
    THEN [res |-> Panic_, tables |-> <<>>, last_sequence |-> 0]
    ELSE IF \E i \in 1..Len(manifest.sstables) :
               \/ ~index_files[manifest.sstables[i].index_path].present
               \/ Cardinality(IndexFromFile(
                      index_files[manifest.sstables[i].index_path].ents)) = 0
    THEN [res |-> Err_, tables |-> <<>>, last_sequence |-> 0]
    ELSE [res |-> Ok_,
          tables |-> [i \in 1..Len(manifest.sstables) |->
                        [index |-> IndexFromFile(
                                       index_files[manifest.sstables[i].index_path].ents),
                         data_path |-> manifest.sstables[i].data_path,
                         index_path |-> manifest.sstables[i].index_path]],
          last_sequence |-> manifest.last_sequence]

\* ------------------------------------------------------------ cancellation
\* The future of Database::flush is dropped at one of its suspension points
\* before the table is put in the set: in File::create of the data file or
\* of the index file, in a write_record of the loop (the memtable is taken
\* by then, lib.rs 100), or in the join of the two flushes.  The locals and
\* the buffered writers are dropped with it; what a writer still buffered
\* does not reach its file.
FlushCancel(p) ==
    /\ pc[p] \in {"fl_start", "fl_data", "fl_idx", "fl_drained"}
    /\ pc' = [pc EXCEPT ![p] = "fl_cancelled"]
    /\ fl' = [fl EXCEPT ![p] = NoFlush]
    /\ IF pc[p] = "fl_idx"
       THEN /\ memtable # {}
            /\ memtable' = {}
            /\ \E n \in 0..(Len(IntoIter(memtable)) - 1) :
                 data_files' = [data_files EXCEPT ![fl[p].next_sequence].recs =
                                   Prefix(IntoIter(memtable), n)]
       ELSE UNCHANGED <<memtable, data_files>>
    /\ UNCHANGED <<tables, last_sequence, index_files, manifest, part, io_err, ret, hist,
                   pre, cvars>>
    /\ UNCHANGED <<input, output>>

\* The caller goes on after the cancelled flush.
MainCancelReturn ==
    /\ pc[Main] = "fl_cancelled"
    /\ ret' = NoRet
    /\ pc' = [pc EXCEPT ![Main] = "idle"]
    /\ pre' = NoPre
    /\ UNCHANGED <<evars, part, io_err, fl, hist, cvars>>
    /\ UNCHANGED <<input, output>>

CancelNext ==
    \/ EngineNext
    \/ FlushCancel(Main)
    \/ MainCancelReturn

SpecCancel == Init /\ [][CancelNext]_vars

\* ------------------------------------------------------------ record codec
\* record.rs at the level of bytes.  A key is a sequence of bytes; a slot is
\* <<"Str", bytes>>, <<"Int64", n>>, <<"Float64", the 8 bytes of its bits>>
\* or <<"Tombstone">>.
RECURSIVE BigEndian(_, _)
\* The w low bytes of a natural number, most significant first.
BigEndian(n, w) == IF w = 0 THEN <<>> ELSE BigEndian(n \div 256, w - 1) \o <<n % 256>>

RECURSIVE FromBigEndian(_)
FromBigEndian(b) ==
    IF b = <<>> THEN 0 ELSE FromBigEndian(SubSeq(b, 1, Len(b) - 1)) * 256 + b[Len(b)]

\* (len as u16).to_be_bytes()
U16Bytes(n) == BigEndian(n % 65536, 2)

\* i64::to_be_bytes: two's complement
I64Bytes(n) ==
    IF n >= 0 THEN BigEndian(n, 8)
    ELSE [i \in 1..8 |-> 255 - BigEndian(-n - 1, 8)[i]]

\* i64::from_be_bytes
I64FromBytes(b) ==
    IF b[1] >= 128 THEN -FromBigEndian([i \in 1..8 |-> 255 - b[i]]) - 1
    ELSE FromBigEndian(b)

\* String::from_utf8 succeeds; the bytes of the model are ASCII or, from 128
\* on, bytes that begin no valid sequence.
ValidUtf8(b) == \A i \in 1..Len(b) : b[i] < 128

\* The tag of a tombstone written as the tag of a string.
type_tagOfStr(v) == IF v[1] = "Int64" THEN 1 ELSE IF v[1] = "Float64" THEN 2 ELSE 0

\* MemValue::type_tag
type_tag(v) ==
    IF v[1] = "Str" THEN 0
    ELSE IF v[1] = "Int64" THEN 1
    ELSE IF v[1] = "Float64" THEN 2
    ELSE Tombstone

\* MemValue::serialize
serialize(v) ==
    IF v[1] = "Str" THEN v[2]
    ELSE IF v[1] = "Int64" THEN I64Bytes(v[2])
    ELSE IF v[1] = "Float64" THEN v[2]
    ELSE <<>>

\* MemValue::deserialize
deserialize(tag, bytes) ==
    IF tag = 0
    THEN IF ValidUtf8(bytes) THEN [ok |-> TRUE, value |-> <<"Str", bytes>>]
         ELSE [ok |-> FALSE, value |-> <<"InvalidData">>]
    ELSE IF tag = 1 /\ Len(bytes) = 8
    THEN [ok |-> TRUE, value |-> <<"Int64", I64FromBytes(bytes)>>]
    ELSE IF tag = 2 /\ Len(bytes) = 8
    THEN [ok |-> TRUE, value |-> <<"Float64", bytes>>]
    ELSE IF tag = Tombstone
    THEN [ok |-> TRUE, value |-> <<"Tombstone">>]
    ELSE [ok |-> FALSE, value |-> <<"InvalidData">>]

\* Record::write_to returning a count without the tag byte.
write_toUncountedTag(rec) ==
    LET key_bytes == rec.key
        val_bytes == serialize(rec.value)
        tag == type_tag(rec.value)
    IN  [bytes |-> U16Bytes(Len(key_bytes)) \o U16Bytes(Len(val_bytes)) \o <<tag>>
                      \o key_bytes \o val_bytes,
         n |-> 2 + 2 + Len(key_bytes) + Len(val_bytes)]

\* Record::write_to on a writer that takes every byte: the bytes written and
\* the sum of the counts the five writes returned.
write_to(rec) ==
    LET key_bytes == rec.key
        val_bytes == serialize(rec.value)
        tag == type_tag(rec.value)
    IN  [bytes |-> U16Bytes(Len(key_bytes)) \o U16Bytes(Len(val_bytes)) \o <<tag>>
                      \o key_bytes \o val_bytes,
         n |-> 2 + 2 + 1 + Len(key_bytes) + Len(val_bytes)]

ReadErr(kind) == [ok |-> FALSE, err |-> kind, key |-> <<>>, value |-> <<"none">>, used |-> 0]

\* Record::read_from on a reader that holds the bytes b: the record and the
\* number of bytes consumed, or the error of the read_exact that met the end
\* of the input or of the conversion that failed.
read_from(b) ==
    IF Len(b) < 2 + 2 + 1 THEN ReadErr("UnexpectedEof")
    ELSE LET key_len == FromBigEndian(SubSeq(b, 1, 2))
             val_len == FromBigEndian(SubSeq(b, 3, 4))
             tag == b[5]
         IN  IF Len(b) < 5 + key_len THEN ReadErr("UnexpectedEof")
             ELSE LET key_buf == SubSeq(b, 6, 5 + key_len)
                  IN  IF ~ValidUtf8(key_buf) THEN ReadErr("InvalidData")
                      ELSE IF Len(b) < 5 + key_len + val_len THEN ReadErr("UnexpectedEof")
                      ELSE LET val_buf == SubSeq(b, 6 + key_len, 5 + key_len + val_len)
                               d == deserialize(tag, val_buf)
                           IN  IF ~d.ok THEN ReadErr("InvalidData")
                               ELSE [ok |-> TRUE, err |-> "none", key |-> key_buf,
                                     value |-> d.value, used |-> 5 + key_len + val_len]

\* ------------------------------------------------- tables, byte by byte
\* The bytes of a key of the model (one letter, in key order) and of a value
\* of the model (a string of v bytes).
KeyBytes(k) == <<96 + k>>

ValBytes(v) == [i \in 1..v |-> 120]

\* write_record of sstable_set.rs and lib.rs: two lengths, key, value.
write_record(key, value) ==
    [bytes |-> U16Bytes(Len(key)) \o U16Bytes(Len(value)) \o key \o value,
     n |-> 2 + 2 + Len(key) + Len(value)]

RECURSIVE FlushTable(_, _, _, _, _, _)
\* The data file and the index that Database::flush writes for the entries
\* of a memtable (lib.rs 97-114): entry i is indexed when i % stride = 0.
FlushTable(entries, stride, i, offset, bytes, index) ==
    IF i >= Len(entries) THEN [bytes |-> bytes, index |-> index]
    ELSE LET w == write_record(KeyBytes(entries[i + 1][1]), ValBytes(entries[i + 1][2]))
         IN  FlushTable(entries, stride, i + 1, offset + w.n, bytes \o w.bytes,
                        IF i % stride = 0
                        THEN MapInsert(index, entries[i + 1][1], offset) ELSE index)

RECURSIVE CompactTable(_, _, _, _, _, _)
\* The data file and the index that compact_sstable_set writes for the
\* entries it emits (compact.rs 74-86), each with Record::write_to.
CompactTable(entries, stride, i, offset, bytes, index) ==
    IF i >= Len(entries) THEN [bytes |-> bytes, index |-> index]
    ELSE LET w == write_to([key |-> KeyBytes(entries[i + 1][1]),
                            value |-> <<"Str", ValBytes(entries[i + 1][2])>>])
         IN  CompactTable(entries, stride, i + 1, offset + w.n, bytes \o w.bytes,
                          IF i % stride = 0
                          THEN MapInsert(index, entries[i + 1][1], offset) ELSE index)

\* The bytes of a file from an offset on (seek, then read).
From(b, offset) == SubSeq(b, offset + 1, Len(b))

\* read_exact of sstable_set.rs: the key and the value at an offset.
sst_read_exact(b, offset) ==
    LET r == From(b, offset)
    IN  IF Len(r) < 2 + 2 THEN Err_
        ELSE LET key_len == FromBigEndian(SubSeq(r, 1, 2))
                 val_len == FromBigEndian(SubSeq(r, 3, 4))
             IN  IF Len(r) < 4 + key_len + val_len THEN Err_
                 ELSE IF ~ValidUtf8(SubSeq(r, 5, 4 + key_len + val_len)) THEN Panic_
                 ELSE Some_(<<SubSeq(r, 5, 4 + key_len),
                              SubSeq(r, 5 + key_len, 4 + key_len + val_len)>>)

RECURSIVE ScanFile(_, _, _, _, _, _)
\* The loop of scan_file_for_key: pos is the position of the reader, offset
\* the count the loop keeps; hasEnd = FALSE stands for end = u64::MAX.
ScanFile(b, key, pos, offset, hasEnd, end) ==
    IF hasEnd /\ offset > end THEN None_
    ELSE LET r == From(b, pos)
         IN  IF Len(r) < 2 THEN None_
             ELSE IF Len(r) < 4 THEN Err_
             ELSE LET key_len == FromBigEndian(SubSeq(r, 1, 2))
                      val_len == FromBigEndian(SubSeq(r, 3, 4))
                  IN  IF Len(r) < 4 + key_len THEN Err_
                      ELSE IF ~ValidUtf8(SubSeq(r, 5, 4 + key_len)) THEN Err_
                      ELSE IF SubSeq(r, 5, 4 + key_len) = key
                      THEN IF Len(r) < 4 + key_len + val_len THEN Err_
                           ELSE IF ~ValidUtf8(SubSeq(r, 5 + key_len, 4 + key_len + val_len))
                           THEN Err_
                           ELSE Some_(SubSeq(r, 5 + key_len, 4 + key_len + val_len))
                      ELSE ScanFile(b, key, pos + 4 + key_len + val_len,
                                    offset + 2 + 2 + key_len + val_len, hasEnd, end)

\* scan_file_for_key
scan_file_for_key(b, key, hasStart, start, hasEnd, end) ==
    ScanFile(b, key, IF hasStart THEN start ELSE 0, IF hasStart THEN start ELSE 0,
             hasEnd, end)

\* seek_and_read of sstable_set.rs
sst_seek_and_read(b, key, range) ==
    IF range.kind = "Exact"
    THEN LET rd == sst_read_exact(b, range.start)
         IN  IF rd \in {Err_, Panic_} THEN rd
             ELSE IF rd[2][1] # key THEN Panic_
             ELSE Some_(rd[2][2])
    ELSE IF range.kind = "FromBegin"
    THEN scan_file_for_key(b, key, FALSE, 0, TRUE, range.end)
    ELSE IF range.kind = "ToEnd"
    THEN scan_file_for_key(b, key, TRUE, range.start, FALSE, 0)
    ELSE scan_file_for_key(b, key, TRUE, range.start, TRUE, range.end)

\* The lookup of a key in a table: bounds on the index, then the data file.
lookup(table, k) ==
    LET range == bounds(table.index, k)
    IN  IF range.kind = "Panic" THEN Panic_
        ELSE sst_seek_and_read(table.bytes, KeyBytes(k), range)

\* ------------------------------------------------- index file, byte by byte
RECURSIVE write_sparse_index(_)
\* sparse_index::write_to on the entries in key order: the length of the
\* key, the key, the offset in 8 bytes.
write_sparse_index(ents) ==
    IF ents = <<>> THEN <<>>
    ELSE U16Bytes(Len(KeyBytes(ents[1][1]))) \o KeyBytes(ents[1][1])
             \o BigEndian(ents[1][2], 8) \o write_sparse_index(Tail(ents))

RECURSIVE read_sparse_index(_, _)
\* sparse_index::read_from: the loop ends at the first read of a length that
\* fails; a key or an offset cut short is an error.  The index read so far
\* is a set of <<key bytes, offset>>.
read_sparse_index(b, index) ==
    IF Len(b) < 2 THEN [res |-> Ok_, index |-> index]
    ELSE LET key_len == FromBigEndian(SubSeq(b, 1, 2))
         IN  IF Len(b) < 2 + key_len THEN [res |-> Err_, index |-> {}]
             ELSE IF Len(b) < 2 + key_len + 8 THEN [res |-> Err_, index |-> {}]
             ELSE IF ~ValidUtf8(SubSeq(b, 3, 2 + key_len)) THEN [res |-> Panic_, index |-> {}]
             ELSE read_sparse_index(
                      From(b, 2 + key_len + 8),
                      MapInsert(index, SubSeq(b, 3, 2 + key_len),
                                FromBigEndian(SubSeq(b, 3 + key_len, 2 + key_len + 8))))

\* ------------------------------------------------- functions, by themselves
\* The slots a record can hold and the tables a flush can write: strictly
\* key-ascending records, at most one per key.
Slots == Values \cup {Tombstone}

SortedTables ==
    {IntoIter({<<k, f[k]>> : k \in {j \in Keys : f[j] # 0}}) : f \in [Keys -> Slots \cup {0}]}

TableLists == UNION {[1..n -> SortedTables] : n \in 1..MaxInputs}

\* compact_sstable_set on the data files of a list of tables, newest first.
MergeApply(T) ==
    /\ input = NoInput
    /\ input' = <<"merge", T>>
    /\ output' = compact_sstable_set(T)
    /\ UNCHANGED <<evars, part, pc, fl, ret, hist, pre, cvars, io_err>>

\* The byte strings, keys and slots the codec is applied to.
ByteStrings(alphabet) == UNION {[1..n -> alphabet] : n \in 0..MaxStrLen}

CodecKeys == ByteStrings({97, 98})

CodecSlots ==
    {<<"Str", b>> : b \in ByteStrings({120, 121})}
    \cup {<<"Int64", n>> : n \in {-257, -2, -1, 0, 1, 255, 256, 65536}}
    \cup {<<"Float64", b>> : b \in {<<0, 0, 0, 0, 0, 0, 0, 0>>, <<63, 240, 0, 0, 0, 0, 0, 0>>,
                                    <<127, 248, 0, 0, 0, 0, 0, 1>>}}
    \cup {<<"Tombstone">>}

\* Record::write_to, then Record::read_from on the bytes written.
RecordApply(rec) ==
    /\ input = NoInput
    /\ input' = <<"record", rec>>
    /\ output' = [written |-> write_to(rec), read |-> read_from(write_to(rec).bytes)]
    /\ UNCHANGED <<evars, part, pc, fl, ret, hist, pre, cvars, io_err>>

MergeNext == \E T \in TableLists : MergeApply(T)

SpecMerge == Init /\ [][MergeNext]_vars

\* The entries of a memtable, or of the output of a merge, over the keys
\* 1..MaxTableKey, in key order.
RECURSIVE Ascending(_, _)
Ascending(f, k) ==
    IF k > MaxTableKey THEN <<>>
    ELSE IF f[k] # 0 THEN <<<<k, f[k]>>>> \o Ascending(f, k + 1)
    ELSE Ascending(f, k + 1)

EntryLists == {Ascending(f, 1) : f \in [1..MaxTableKey -> Values \cup {0}]}

\* A table is written by flush or by the merge, and a key looked up in it.
LookupApply(by, entries, stride, k) ==
    /\ input = NoInput
    /\ input' = <<"lookup", by, entries, stride, k>>
    /\ output' = lookup(IF by = "flush"
                        THEN FlushTable(entries, stride, 0, 0, <<>>, {})
                        ELSE CompactTable(entries, stride, 0, 0, <<>>, {}), k)
    /\ UNCHANGED <<evars, part, pc, fl, ret, hist, pre, cvars, io_err>>

LookupNext ==
    \E by \in {"flush", "compact"}, entries \in EntryLists, stride \in 1..MaxStride,
       k \in 1..MaxTableKey : LookupApply(by, entries, stride, k)

SpecLookup == Init /\ [][LookupNext]_vars

\* The entries of a memtable whose slots are values and tombstones.
MemTables == {Ascending(f, 1) : f \in [1..MaxTableKey -> Slots \cup {0}]}

\* The MemValue of a slot of the model.
SlotValue(v) == IF v = Tombstone THEN <<"Tombstone">> ELSE <<"Str", ValBytes(v)>>

RECURSIVE flush_to(_, _, _, _, _, _)
\* memtable::flush_to: every entry is written with Record::write_to, a
\* tombstone too, and entry i is indexed when i % index_stride = 0.
flush_to(entries, stride, i, offset, bytes, index) ==
    IF i >= Len(entries) THEN [bytes |-> bytes, index |-> index]
    ELSE LET w == write_to([key |-> KeyBytes(entries[i + 1][1]),
                            value |-> SlotValue(entries[i + 1][2])])
         IN  flush_to(entries, stride, i + 1, offset + w.n, bytes \o w.bytes,
                      IF i % stride = 0
                      THEN MapInsert(index, entries[i + 1][1], offset) ELSE index)

\* The tables a merge is given in the model of the index, over the keys
\* 1..MaxTableKey: one table, or a newer table whose values are the shortest
\* and an older one whose values are the longest.
TablesOf(v) == {Ascending(f, 1) : f \in [1..MaxTableKey -> {0, v, Tombstone}]}

IndexInputs ==
    {<<t>> : t \in MemTables}
    \cup {<<t0, t1>> : t0 \in TablesOf(Min(Values)), t1 \in TablesOf(Max(Values))}

\* A table is written by Database::flush, by flush_to or by the merge.  The
\* outcome holds the records emitted, the bytes and the index of the table
\* and, for the merge, the index compact_sstable_set returns.
IndexApply(by, src, stride) ==
    /\ input = NoInput
    /\ input' = <<"index", by, src, stride>>
    /\ output' =
         IF by = "flush"
         THEN LET t == FlushTable(src, stride, 0, 0, <<>>, {})
              IN  [emitted |-> src, bytes |-> t.bytes, index |-> t.index, merged |-> {}]
         ELSE IF by = "flush_to"
         THEN LET t == flush_to(src, stride, 0, 0, <<>>, {})
              IN  [emitted |-> src, bytes |-> t.bytes, index |-> t.index, merged |-> {}]
         ELSE LET m == compact_sstable_set(src)
                  t == CompactTable(m.recs, stride, 0, 0, <<>>, {})
              IN  [emitted |-> m.recs, bytes |-> t.bytes, index |-> t.index,
                   merged |-> m.index]
    /\ UNCHANGED <<evars, part, pc, fl, ret, hist, pre, cvars, io_err>>

IndexNext ==
    \/ \E src \in EntryLists, stride \in 1..MaxStride : IndexApply("flush", src, stride)
    \/ \E src \in MemTables, stride \in 1..MaxStride : IndexApply("flush_to", src, stride)
    \/ \E src \in IndexInputs, stride \in 1..MaxStride : IndexApply("compact", src, stride)

SpecIndex == Init /\ [][IndexNext]_vars

\* The inputs of a merge, one or more of them ending in bytes that are no
\* record.
CorruptLists ==
    {T \in UNION {[1..n -> SortedTables \cup {Append(t, Corrupt) : t \in SortedTables}] :
                     n \in 1..(MaxInputs - 1)} :
        \E i \in 1..Len(T) : T[i] # <<>> /\ T[i][Len(T[i])] = Corrupt}

\* The merge on inputs of which one is cut short or malformed.
MergeCorruptApply(T) ==
    /\ input = NoInput
    /\ input' = <<"merge", T>>
    /\ output' = compact_sstable_set(T).res
    /\ UNCHANGED <<evars, part, pc, fl, ret, hist, pre, cvars, io_err>>

\* The index file that flush wrote is cut inside an entry, at byte n, and
\* loaded as SSTableSet::build loads it, an index without an entry being
\* refused (sstable_set.rs 54-57).
IndexLoadApply(entries, stride, n) ==
    /\ input = NoInput
    /\ LET b == write_sparse_index(
                    IntoIter(FlushTable(entries, stride, 0, 0, <<>>, {}).index))
       IN  /\ n < Len(b)
           /\ n % (2 + 1 + 8) # 0
           /\ input' = <<"index", entries, stride, n>>
           /\ output' = LET r == read_sparse_index(SubSeq(b, 1, n), {})
                         IN  IF r.res = Ok_ /\ Cardinality(r.index) = 0 THEN Err_ ELSE r.res
    /\ UNCHANGED <<evars, part, pc, fl, ret, hist, pre, cvars, io_err>>

\* The data file that flush wrote is cut inside its last record, n bytes
\* before its end, and a key greater than every key of the table looked up:
\* the scan runs from the last entry of the index to the end of the file.
LookupCutApply(entries, stride, n) ==
    /\ input = NoInput
    /\ entries # <<>>
    /\ entries[Len(entries)][1] < MaxTableKey
    /\ LET t == FlushTable(entries, stride, 0, 0, <<>>, {})
           last == write_record(KeyBytes(entries[Len(entries)][1]),
                                ValBytes(entries[Len(entries)][2]))
       IN  /\ n < last.n
           /\ input' = <<"lookup", entries, stride, n>>
           /\ output' = lookup([bytes |-> SubSeq(t.bytes, 1, Len(t.bytes) - n),
                                index |-> t.index], MaxTableKey)
    /\ UNCHANGED <<evars, part, pc, fl, ret, hist, pre, cvars, io_err>>

CorruptNext ==
    \/ \E T \in CorruptLists : MergeCorruptApply(T)
    \/ \E entries \in EntryLists, stride \in 1..MaxStride, n \in 1..(MaxTableKey * (2 + 1 + 8)) :
          IndexLoadApply(entries, stride, n)
    \/ \E entries \in EntryLists, stride \in 1..MaxStride, n \in 1..(2 + 2 + 1 + MaxVal) :
          LookupCutApply(entries, stride, n)

SpecCorrupt == Init /\ [][CorruptNext]_vars

CodecNext == \E k \in CodecKeys, v \in CodecSlots : RecordApply([key |-> k, value |-> v])

SpecCodec == Init /\ [][CodecNext]_vars

\* The sparse indexes bounds is applied to: some of the keys, each under the
\* offset of its record, the offsets ascending with the keys as the writers
\* of an index leave them.
IndexMaps ==
    {{<<k, f[k]>> : k \in {j \in 1..MaxTableKey : f[j] >= 0}} :
        f \in {g \in [1..MaxTableKey -> -1..MaxOffset] :
                 \A a, b \in 1..MaxTableKey :
                     (a < b /\ g[a] >= 0 /\ g[b] >= 0) => g[a] < g[b]}}
    \ {{}}

\* sparse_index::bounds on an index with an entry.
BoundsApply(index, k) ==
    /\ input = NoInput
    /\ input' = <<"bounds", index, k>>
    /\ output' = bounds(index, k)
    /\ UNCHANGED <<evars, part, pc, fl, ret, hist, pre, cvars, io_err>>

BoundsNext == \E index \in IndexMaps, k \in 1..MaxTableKey : BoundsApply(index, k)

SpecBounds == Init /\ [][BoundsNext]_vars

\* ------------------------------------------------- the merge, step by step
\* compact_sstable_set one statement at a time.  output holds the locals of
\* the function: the position of every reader, the heap, the entry popped,
\* the records written, the index, offset and i; and, to account for the
\* reads, how many entries of each input were popped and which records were
\* read, in the order of the reads.
MergeStart(T) ==
    /\ input = NoInput
    /\ input' = <<"steps", T>>
    /\ output' = [phase |-> "init", next |-> 1, pos |-> [t \in 1..Len(T) |-> 0],
                  heap |-> {}, entry |-> <<>>, out |-> <<>>, index |-> {},
                  offset |-> 0, i |-> 0,
                  popped |-> [t \in 1..Len(T) |-> 0], log |-> <<>>]
    /\ UNCHANGED <<evars, part, pc, fl, ret, hist, pre, cvars, io_err>>

\* Record::read_from on reader t and, when a record is read, heap.push.
ReadInto(T, s, t) ==
    LET r == Refill(T, s.pos, s.heap, t)
    IN  [s EXCEPT !.pos = r.pos, !.heap = r.heap,
                  !.log = IF r.pos # s.pos THEN Append(s.log, <<t, r.pos[t]>>) ELSE s.log]

\* The first loop: the first record of the next input is pushed
\* (compact.rs 42-53).
MergePush ==
    /\ input[1] = "steps" /\ output.phase = "init"
    /\ output' = [ReadInto(input[2], output, output.next) EXCEPT
                      !.next = output.next + 1,
                      !.phase = IF output.next = Len(input[2]) THEN "loop" ELSE "init"]
    /\ UNCHANGED <<evars, part, pc, fl, ret, hist, pre, cvars, io_err, input>>

\* while let Some(entry) = heap.pop() (compact.rs 55)
MergePop ==
    /\ input[1] = "steps" /\ output.phase = "loop" /\ output.heap # {}
    /\ LET entry == HeapTop(output.heap)
       IN  output' = [output EXCEPT !.phase = "popped", !.entry = entry,
                                    !.heap = output.heap \ {entry},
                                    !.popped[entry[2]] = output.popped[entry[2]] + 1]
    /\ UNCHANGED <<evars, part, pc, fl, ret, hist, pre, cvars, io_err, input>>

\* The inner loop popping an entry with the key of the popped one, without
\* reading on from its input.
MergeDiscardWithoutRefill ==
    /\ input[1] = "steps" /\ output.phase = "popped"
    /\ output.heap # {} /\ HeapTop(output.heap)[1] = output.entry[1]
    /\ LET next == HeapTop(output.heap)
       IN  output' = [output EXCEPT !.heap = output.heap \ {next},
                                    !.popped[next[2]] = output.popped[next[2]] + 1]
    /\ UNCHANGED <<evars, part, pc, fl, ret, hist, pre, cvars, io_err, input>>

\* The inner loop: the entry on top has the key of the popped one; it is
\* popped and its input read on (compact.rs 59-72).
MergeDiscard ==
    /\ input[1] = "steps" /\ output.phase = "popped"
    /\ output.heap # {} /\ HeapTop(output.heap)[1] = output.entry[1]
    /\ LET next == HeapTop(output.heap)
           s == [output EXCEPT !.heap = output.heap \ {next},
                               !.popped[next[2]] = output.popped[next[2]] + 1]
       IN  output' = ReadInto(input[2], s, next[2])
    /\ UNCHANGED <<evars, part, pc, fl, ret, hist, pre, cvars, io_err, input>>

\* The entry on top has another key: the popped entry is written unless it
\* is a tombstone, and its input read on (compact.rs 74-96).
MergeEmit ==
    /\ input[1] = "steps" /\ output.phase = "popped"
    /\ IF output.heap = {} THEN TRUE ELSE HeapTop(output.heap)[1] # output.entry[1]
    /\ LET entry == output.entry
           emit == entry[3] # Tombstone
           record == <<entry[1], entry[3]>>
           s == [output EXCEPT
                    !.phase = "loop", !.entry = <<>>,
                    !.index = IF emit /\ output.i % Stride = 0
                              THEN MapInsert(output.index, entry[1], output.offset)
                              ELSE output.index,
                    !.out = IF emit THEN Append(output.out, record) ELSE output.out,
                    !.offset = IF emit THEN output.offset + RecordLen(record)
                               ELSE output.offset,
                    !.i = IF emit THEN output.i + 1 ELSE output.i]
       IN  output' = ReadInto(input[2], s, entry[2])
    /\ UNCHANGED <<evars, part, pc, fl, ret, hist, pre, cvars, io_err, input>>

\* The heap is empty: Ok(index) (compact.rs 99).
MergeReturn ==
    /\ input[1] = "steps" /\ output.phase = "loop" /\ output.heap = {}
    /\ output' = [output EXCEPT !.phase = "done"]
    /\ UNCHANGED <<evars, part, pc, fl, ret, hist, pre, cvars, io_err, input>>

MergeStep ==
    \/ MergePush
    \/ MergePop
    \/ MergeDiscard
    \/ MergeEmit
    \/ MergeReturn

MergeStepsNext ==
    \/ \E T \in TableLists : MergeStart(T)
    \/ MergeStep

SpecMergeSteps == Init /\ [][MergeStepsNext]_vars

\* ================================================================== claims
FlushPcs == {"fl_start", "fl_data", "fl_idx", "fl_drained", "fl_registered",
             "fl_manifest", "fl_ret"}

Returned(k) == get(k)[1] \in {"Some", "None"}

FlushReturnedOk == pc[Main] = "fl_ret" /\ fl[Main].res = Ok_

\* C1: after any sequence of set, delete, flush and compact, get(k) returns
\* the value of the most recent set(k, v), or absent when a delete(k) came
\* after that set.  Stated for the runs in which no file operation failed
\* and for the keys on which get returns.
C1_Shadowing ==
    (pc[Main] = "idle" /\ ~io_err) =>
        \A k \in Keys : Returned(k) => get(k) = hist[k]

\* C2: get(k) after a successful flush() returns what get(k) returned in
\* the state just before the flush.
C2_FlushTransparent ==
    FlushReturnedOk => \A k \in Keys : get(k) = pre.get[k]

\* C3: with at least two SSTables, get(k) after a successful compact()
\* returns what get(k) returned in the state just before the compaction.
\* Stated for the runs in which no file operation failed.
C3_CompactTransparent ==
    (pc[Main] = "cp_ret" /\ fl[Main].res = Ok_ /\ ~io_err) =>
        \A k \in Keys : get(k) = pre.get[k]

\* C4: when flush() fails, the memtable, the SSTable set and the manifest
\* are those of before the call.
C4_FailedFlushKeepsState ==
    (pc[Main] = "fl_ret" /\ fl[Main].res = Err_) =>
        /\ memtable = pre.memtable
        /\ tables = pre.tables
        /\ last_sequence = pre.last_sequence
        /\ manifest = pre.manifest

\* C5: in every reachable state, the steps inside flush and compaction
\* included, the MANIFEST on disk is a complete document, the data and
\* index files of every table it names exist, and build() succeeds.
C5_ManifestReadable ==
    /\ manifest.complete
    /\ \A i \in 1..Len(manifest.sstables) :
         /\ data_files[manifest.sstables[i].data_path].present
         /\ index_files[manifest.sstables[i].index_path].present
    /\ build.res = Ok_

\* C6: after a successful flush(), an engine built from the data directory
\* has the same tables in the same order and the same last_sequence, and
\* its get(k) returns what get(k) returns now.
C6_RestartAfterFlush ==
    FlushReturnedOk =>
        /\ build.res = Ok_
        /\ build.tables = tables
        /\ build.last_sequence = last_sequence
        /\ \A k \in Keys : GetIn({}, build.tables, data_files, k) = get(k)

HoldsWrite(p) == pc[p] \in FlushPcs \cup {"w_spawn", "sd_ret"}

HoldsRead(p) == pc[p] = "get_held"

\* C7: through the controller at most one of set, delete, a background
\* flush task and the final flush of shutdown holds the write guard, and no
\* get holds a read guard while the write guard is held, so that no get runs
\* between the start and the end of a flush.
C7_OneWriterNoReader ==
    LET W == {p \in Clients \cup Tasks : HoldsWrite(p)}
        R == {p \in Clients : HoldsRead(p)}
    IN  /\ Cardinality(W) <= 1
        /\ W # {} => R = {}
        /\ \A p \in W : writer = p
        /\ R = readers

\* A task is inside its flush while a client waits with a write applied and
\* another task waits for the guard.
C7_Witness ==
    \E t \in Tasks, u \in Tasks, p \in Clients :
        /\ pc[t] = "fl_drained"
        /\ pc[u] = "t_wait"
        /\ pc[p] = "sd_lock"

\* C8: a get(k) that takes its read guard after a set(k, v) or delete(k)
\* returned observes that write or a later write to k.  Stated for the runs
\* in which no file operation failed and for the keys on which get returns.
C8_ReadsSeeWrites ==
    \A p \in Clients :
        (HoldsRead(p) /\ ~io_err /\ Returned(cl[p].key)) =>
            get(cl[p].key) = hist[cl[p].key]

ShutdownReturnsOk(p) ==
    cl[p].op = "shutdown" /\ pc[p] \in {"sd_ret", "fl_ret"} /\ fl[p].res = Ok_

\* C9: when the first shutdown() returns successfully, every flush task
\* spawned before the call has finished and the memtable is empty, the
\* entries it held being the records of the table the manifest names first.
C9_ShutdownDrains ==
    \A p \in Clients :
        ShutdownReturnsOk(p) =>
            /\ \A t \in cl[p].spawned : pc[t] = "t_done"
            /\ memtable = {}
            /\ pre.memtable # {} =>
                 /\ manifest.complete
                 /\ Len(manifest.sstables) > 0
                 /\ data_files[manifest.sstables[1].data_path] =
                        [present |-> TRUE, recs |-> IntoIter(pre.memtable)]
                 /\ manifest = ManifestNew(tables, last_sequence)

\* A shutdown called after a task was spawned returns from a final flush of
\* a memtable that held entries.
C9_Witness ==
    \E p \in Clients :
        /\ ShutdownReturnsOk(p)
        /\ cl[p].spawned # {}
        /\ pre.memtable # {}

InShutdownBody(p) == cl[p].op = "shutdown" /\ pc[p] # "sd_call"

\* C10: shutdown() is idempotent: the join and the final flush are entered
\* at most once, and a call that finds the flag set changes nothing of the
\* engine, of the disk or of the task set, and returns ack.
C10_ShutdownIdempotent ==
    [][ /\ sd_runs' <= 1
        /\ \A p \in Clients :
             (pc[p] = "sd_call" /\ pc'[p] # "sd_call" /\ sd_runs >= 1) =>
                 /\ pc'[p] = "idle"
                 /\ ret' = <<"shutdown", 0, Ok_>>
                 /\ UNCHANGED <<evars, part, workers, writer, readers, workers_lock>>
      ]_vars

\* A second call has returned ack while the first is still in its body.
C10_Witness ==
    /\ sd_runs = 1
    /\ ret = <<"shutdown", 0, Ok_>>
    /\ \E p \in Clients : InShutdownBody(p)

\* C11: when a flush is cancelled at a suspension point before the new table
\* is added to the set, the memtable, the SSTable set and the manifest are
\* those of before the flush started, and get(k) returns for every key what
\* it returned before the flush started.
C11_CancelledFlushKeepsState ==
    pc[Main] = "fl_cancelled" =>
        /\ memtable = pre.memtable
        /\ tables = pre.tables
        /\ last_sequence = pre.last_sequence
        /\ manifest = pre.manifest
        /\ \A k \in Keys : get(k) = pre.get[k]

\* C12: when compact() fails, the SSTable set, the manifest and the data and
\* index file of every input table are those of before the call, and get(k)
\* returns for every key what it returned before the call.
C12_FailedCompactKeepsState ==
    (pc[Main] = "cp_ret" /\ fl[Main].res = Err_) =>
        /\ tables = pre.tables
        /\ last_sequence = pre.last_sequence
        /\ manifest = pre.manifest
        /\ \A i \in 1..Len(pre.tables) :
             /\ data_files[pre.tables[i].data_path] = pre.data_files[pre.tables[i].data_path]
             /\ index_files[pre.tables[i].index_path] =
                    pre.index_files[pre.tables[i].index_path]
        /\ \A k \in Keys : get(k) = pre.get[k]

HasKey(recs, k) == \E j \in 1..Len(recs) : recs[j][1] = k

SlotOf(recs, k) == recs[CHOOSE j \in 1..Len(recs) : recs[j][1] = k][2]

\* C13: for input tables T0..Tn-1, newest first and each strictly
\* key-ascending, the output of the merge is strictly key-ascending (hence
\* without a duplicate key), holds no tombstone, and holds exactly the keys
\* whose slot in the lowest-numbered table that has the key is a value, each
\* with that value.
C13_MergeOutput ==
    input[1] = "merge" =>
        LET T == input[2]
            out == output.recs
        IN  /\ \A i \in 1..(Len(out) - 1) : out[i][1] < out[i + 1][1]
            /\ \A i \in 1..Len(out) : out[i][2] # Tombstone
            /\ \A k \in Keys :
                 LET holders == {t \in 1..Len(T) : HasKey(T[t], k)}
                 IN  IF holders # {} /\ SlotOf(T[Min(holders)], k) # Tombstone
                     THEN /\ HasKey(out, k)
                          /\ SlotOf(out, k) = SlotOf(T[Min(holders)], k)
                     ELSE ~HasKey(out, k)

\* Three tables were merged: one key is a tombstone in the newest and a
\* value in the older two, another has a different value in each.
C13_Witness ==
    /\ input[1] = "merge"
    /\ Len(input[2]) = 3
    /\ input[2][1] = <<<<1, Tombstone>>, <<2, 1>>>>
    /\ input[2][2] = <<<<1, 1>>, <<2, 2>>>>
    /\ input[2][3] = <<<<1, 2>>>>
    /\ output.recs = <<<<2, 1>>>>

\* C17: for a record with a key of at most 65535 bytes and a well-formed
\* slot, reading back the bytes that writing it produced yields the same key
\* and the same variant with an equal payload, and the count the write
\* returns is 5 + the length of the key + the length of the payload.
C17_RecordRoundTrip ==
    input[1] = "record" =>
        LET rec == input[2]
            payload == IF rec.value[1] = "Str" THEN Len(rec.value[2])
                       ELSE IF rec.value[1] = "Tombstone" THEN 0 ELSE 8
        IN  /\ output.read.ok
            /\ output.read.key = rec.key
            /\ output.read.value = rec.value
            /\ output.read.used = Len(output.written.bytes)
            /\ output.written.n = 5 + Len(rec.key) + payload
            /\ output.written.n = Len(output.written.bytes)

\* A tombstone under a key of two bytes and a negative Int64 were written
\* and read back.
C17_Witness ==
    /\ input[1] = "record"
    /\ output.read.ok
    /\ \/ input[2] = [key |-> <<97, 98>>, value |-> <<"Tombstone">>]
       \/ input[2] = [key |-> <<>>, value |-> <<"Int64", -257>>]

\* C14: for every SSTable written by flush or by compaction, with any
\* stride >= 1, and for every key k, the lookup in the table (bounds on the
\* sparse index, then the seek or the scan of the data file) returns the
\* slot of k when the table holds a record with key k and absent when it
\* holds none.
C14_LookupFinds ==
    input[1] = "lookup" =>
        LET entries == input[3]
            k == input[5]
        IN  IF HasKey(entries, k)
            THEN output = Some_(ValBytes(SlotOf(entries, k)))
            ELSE output = None_

\* The same for the tables that flush writes from a memtable with entries.
LookupFindsInFlushed ==
    (input[1] = "lookup" /\ input[2] = "flush" /\ input[3] # <<>>) => C14_LookupFinds

\* C15: across any sequence of flush and compact operations last_sequence
\* never decreases.
C15_SequenceMonotone == [][last_sequence' >= last_sequence]_vars

\* C16: a malformed or truncated record or index entry met by an operation
\* (the merge reading an input table, the load of an index at build, a point
\* lookup) makes the operation return an error; it is never taken for the
\* end of the input and never skipped.
C16_CorruptIsAnError ==
    input[1] \in {"merge", "index", "lookup"} => output = Err_

\* The same for the merge alone, for the index load alone and for the point
\* lookup alone.
CorruptMergeIsAnError == input[1] = "merge" => output = Err_

CorruptIndexIsAnError == input[1] = "index" => output = Err_

CutLookupIsAnError == input[1] = "lookup" => output = Err_

\* C18: a successful flush of a memtable that holds entries adds exactly one
\* SSTable at position 0 of the set, the previous tables following in their
\* previous order; last_sequence is its previous value plus 1 and the new
\* files bear that number; the memtable is empty; and the manifest lists the
\* tables of the set in the same order with the same last_sequence.
C18_FlushEffects ==
    (FlushReturnedOk /\ pre.memtable # {}) =>
        /\ Len(tables) = Len(pre.tables) + 1
        /\ SubSeq(tables, 2, Len(tables)) = pre.tables
        /\ last_sequence = pre.last_sequence + 1
        /\ tables[1].data_path = last_sequence
        /\ tables[1].index_path = last_sequence
        /\ data_files[last_sequence].present
        /\ index_files[last_sequence].present
        /\ memtable = {}
        /\ manifest.complete
        /\ manifest.last_sequence = last_sequence
        /\ Len(manifest.sstables) = Len(tables)
        /\ \A i \in 1..Len(tables) :
             /\ manifest.sstables[i].data_path = tables[i].data_path
             /\ manifest.sstables[i].index_path = tables[i].index_path

\* A second flush of a memtable with two entries has returned successfully.
C18_Witness ==
    /\ FlushReturnedOk
    /\ Cardinality(pre.memtable) = 2
    /\ Len(pre.tables) = 1
    /\ Len(tables) = 2

\* C19: a flush of an empty memtable is a no-op: no table is added and
\* last_sequence and the manifest are unchanged; so of several flush tasks
\* spawned by set and delete calls before the first of them runs, the tasks
\* that find the memtable empty change nothing.
C19_EmptyFlushNoOp ==
    \A t \in Tasks :
        (pc[t] = "fl_ret" /\ fl[t].res = Ok_ /\ pre.memtable = {}) =>
            /\ tables = pre.tables
            /\ last_sequence = pre.last_sequence
            /\ manifest = pre.manifest

\* C20: in every reachable state every SSTable of the set, and every SSTable
\* the manifest names, has a sparse index with at least one entry, the
\* smallest key of which is the key of the first record of the table; no
\* flush and no compaction registers a table without a record, so bounds
\* never meets an index with neither a lower nor an upper entry.
C20_IndexNonEmpty ==
    /\ \A i \in 1..Len(tables) :
         /\ tables[i].index # {}
         /\ data_files[tables[i].data_path].recs # <<>>
         /\ data_files[tables[i].data_path].recs[1][1] = Min(MapKeys(tables[i].index))
    /\ \A i \in 1..Len(manifest.sstables) :
         index_files[manifest.sstables[i].index_path].ents # <<>>
    /\ \A k \in Keys : get(k) # Panic_

RECURSIVE FirstTableWith(_, _, _, _)
\* The position of the first table, newest first, whose data file holds a
\* record for the key; 0 when no table does.
FirstTableWith(tbs, files, key, i) ==
    IF i > Len(tbs) THEN 0
    ELSE IF HasKey(files[tbs[i].data_path].recs, key) THEN i
    ELSE FirstTableWith(tbs, files, key, i + 1)

\* What the first place holding a slot for the key decides: the memtable,
\* then the tables newest first.
FirstPlace(mem, tbs, files, key) ==
    IF key \in MapKeys(mem) THEN to_value((CHOOSE e \in mem : e[1] = key)[2])
    ELSE IF FirstTableWith(tbs, files, key, 1) = 0 THEN None_
    ELSE to_value(SlotOf(files[tbs[FirstTableWith(tbs, files, key, 1)].data_path].recs, key))

\* C21: get(k) is decided by the first place that holds a slot for k, in
\* the order memtable, T0, .., Tn-1: a value is returned, a tombstone yields
\* absent, and when no place holds a slot for k the result is absent.
\* Stated for the runs in which no file operation failed.
C21_FirstPlaceDecides ==
    (pc[Main] = "idle" /\ ~io_err) =>
        \A k \in Keys : get(k) = FirstPlace(memtable, tables, data_files, k)

\* The same for the engines whose tables all hold a record.
FirstPlaceDecidesInFilled ==
    (pc[Main] = "idle" /\ ~io_err /\ \A i \in 1..Len(tables) : tables[i].index # {}) =>
        \A k \in Keys : get(k) = FirstPlace(memtable, tables, data_files, k)

\* C22: for a non-empty index and any key, bounds returns Exact(off) exactly
\* when the key is an index key, off being its offset; Range(start, end)
\* with the offsets of the nearest index keys below and above when the key
\* lies strictly between two index keys; FromBegin(end) with the first
\* index offset when the key is below the smallest index key; ToEnd(start)
\* with the last index offset when the key is above the largest index key.
C22_Bounds ==
    input[1] = "bounds" =>
        LET index == input[2]
            key == input[3]
            below == {k \in MapKeys(index) : k < key}
            above == {k \in MapKeys(index) : k > key}
            nearestBelow == CHOOSE k \in below : \A j \in below : j <= k
            nearestAbove == CHOOSE k \in above : \A j \in above : k <= j
        IN  /\ (output.kind = "Exact") <=> (key \in MapKeys(index))
            /\ key \in MapKeys(index) => output.start = OffsetIn(index, key)
            /\ (key \notin MapKeys(index) /\ below # {} /\ above # {}) =>
                   /\ output.kind = "Range"
                   /\ output.start = OffsetIn(index, nearestBelow)
                   /\ output.end = OffsetIn(index, nearestAbove)
            /\ (key \notin MapKeys(index) /\ below = {}) =>
                   /\ output.kind = "FromBegin"
                   /\ output.end = OffsetIn(index, nearestAbove)
            /\ (key \notin MapKeys(index) /\ above = {}) =>
                   /\ output.kind = "ToEnd"
                   /\ output.start = OffsetIn(index, nearestBelow)

\* bounds answered Range for a key between two index keys, the lower of
\* which is not the smallest of the index.
C22_Witness ==
    /\ input[1] = "bounds"
    /\ output.kind = "Range"
    /\ \E k \in MapKeys(input[2]) : k < input[3] /\ OffsetIn(input[2], k) < output.start

CompactPcs == {"cp_start", "cp_merged", "cp_deleted", "cp_registered", "cp_manifest"}

\* A step deletes the data file or the index file numbered n.
Deletes(n) ==
    \/ data_files[n].present /\ ~data_files'[n].present
    \/ index_files[n].present /\ ~index_files'[n].present

\* C23: the data and index files of an SSTable are deleted only by a
\* compaction, and only after the merged successor was renamed into place
\* and a manifest naming the successor was written: at the step that deletes
\* a file the set is the successor alone, the part files are gone, and the
\* manifest on disk is complete and names the tables of the set.
C23_DeleteAfterSuccessor ==
    [][\A n \in FileNos :
         Deletes(n) =>
             /\ pc[Main] \in CompactPcs
             /\ Len(tables) = 1 /\ tables[1].data_path # n /\ tables[1].index_path # n
             /\ ~part.present
             /\ manifest = ManifestNew(tables, last_sequence)]_vars

\* Files are deleted by no step outside a compaction.
DeleteOnlyInCompaction ==
    [][\A n \in FileNos : Deletes(n) => pc[Main] \in CompactPcs]_vars

CompactReturnedOk == pc[Main] = "cp_ret" /\ fl[Main].res = Ok_

\* C24: after a successful compact() on two or more tables the set holds
\* exactly one SSTable, named 00001.db / 00001.idx, last_sequence is 1, and
\* the manifest lists exactly that table.
C24_CompactResult ==
    CompactReturnedOk =>
        /\ Len(tables) = 1
        /\ tables[1].data_path = 1 /\ tables[1].index_path = 1
        /\ data_files[1].present /\ index_files[1].present
        /\ last_sequence = 1
        /\ manifest.complete
        /\ manifest.last_sequence = 1
        /\ manifest.sstables = <<[data_path |-> 1, index_path |-> 1]>>

\* A compaction of two tables, the newer of which was 00002, returned
\* successfully.
C24_Witness ==
    /\ CompactReturnedOk
    /\ Len(pre.tables) = 2
    /\ pre.tables[1].data_path = 2
    /\ pre.last_sequence = 2

\* A step in which the caller's compact() is entered or returns at once.
CompactCalled ==
    /\ pc[Main] = "idle"
    /\ \/ pc'[Main] = "cp_start"
       \/ ret'[1] = "compact" /\ ret' # ret

\* C25: compact() on fewer than two tables is a no-op: the set,
\* last_sequence, the manifest, the memtable and every file are unchanged
\* and no merge is run.
C25_CompactFewTables ==
    [][(CompactCalled /\ Len(tables) < 2) =>
           /\ pc'[Main] = "idle"
           /\ UNCHANGED <<memtable, tables, last_sequence, manifest, data_files,
                          index_files, part, io_err>>]_vars

\* compact() returned at once on an engine with one table and a memtable
\* with an entry.
C25_Witness ==
    /\ ret = <<"compact", 0, Ok_>>
    /\ pc[Main] = "idle"
    /\ Len(tables) = 1
    /\ memtable # {}

\* C27: after every set or delete through the controller a background flush
\* task is spawned if and only if current_size > flush_threshold, the test
\* being made while the writer lock is still held; the spawned task takes
\* the writer lock itself before it flushes.
C27_SpawnIffOverThreshold ==
    [][/\ \A p \in Clients :
            (pc[p] = "idle" /\ pc'[p] = "w_spawn") =>
                writer' = p /\ current_size' > FlushThreshold
       /\ (memtable' # memtable /\ pc' = pc) => ~(current_size' > FlushThreshold)
       /\ \A p \in Clients :
            (pc[p] = "w_spawn" /\ pc'[p] # "w_spawn") =>
                /\ pc'[p] = "idle"
                /\ \E t \in Tasks : pc[t] = "idle" /\ pc'[t] = "t_wait" /\ t \in workers'
       /\ \A t \in Tasks :
            (pc[t] = "idle" /\ pc'[t] # "idle") =>
                /\ pc'[t] = "t_wait"
                /\ current_size > FlushThreshold
                /\ \E p \in Clients : pc[p] = "w_spawn" /\ writer = p
       /\ \A t \in Tasks :
            (pc[t] = "t_wait" /\ pc'[t] # "t_wait") =>
                writer = NoProc /\ readers = {} /\ writer' = t
       /\ \A t \in Tasks : pc'[t] \in FlushPcs => writer' = t]_vars

\* A task was spawned and waits for the writer lock, which the caller that
\* spawned it has released.
C27_Witness ==
    /\ \E t \in Tasks : pc[t] = "t_wait" /\ t \in workers
    /\ current_size > FlushThreshold
    /\ writer = NoProc
    /\ \A p \in Clients : pc[p] = "idle"

RECURSIVE RecordsIn(_, _, _)
\* The records a data file holds, read one after the other from an offset:
\* of each the offset at which it begins and the bytes of its key.  header
\* is the length of the header of a record: 4, or 5 with the tag byte.
RecordsIn(b, offset, header) ==
    IF Len(b) < offset + header THEN <<>>
    ELSE LET key_len == FromBigEndian(SubSeq(b, offset + 1, offset + 2))
             val_len == FromBigEndian(SubSeq(b, offset + 3, offset + 4))
         IN  <<[offset |-> offset,
                key |-> SubSeq(b, offset + header + 1, offset + header + key_len)]>>
             \o RecordsIn(b, offset + header + key_len + val_len, header)

\* C28: in every SSTable written by flush or by compaction with stride
\* s >= 1, the sparse index holds exactly the records at the 0-based
\* positions 0, s, 2s, .. of the emitted records (the tombstones that
\* compaction drops are not counted), and the offset of each entry is the
\* byte offset at which that record begins, so that the record at that
\* offset has the indexed key.
C28_IndexEveryStride ==
    input[1] = "index" =>
        LET stride == input[4]
            recs == RecordsIn(output.bytes, 0, IF input[2] = "flush" THEN 4 ELSE 5)
            emitted == output.emitted
            indexed == {j \in 1..Len(emitted) : (j - 1) % stride = 0}
        IN  /\ Len(recs) = Len(emitted)
            /\ \A j \in 1..Len(emitted) : recs[j].key = KeyBytes(emitted[j][1])
            /\ output.index = {<<emitted[j][1], recs[j].offset>> : j \in indexed}
            /\ input[2] = "compact" =>
                   /\ \A j \in 1..Len(emitted) : emitted[j][2] # Tombstone
                   /\ output.merged =
                          {<<emitted[j][1], OffsetOf(emitted, j)>> :
                               j \in {n \in 1..Len(emitted) : (n - 1) % Stride = 0}}

\* A merge with stride 2 dropped a tombstone that came before the third
\* record it emitted, and indexed the first and the third.
C28_Witness ==
    /\ input[1] = "index" /\ input[2] = "compact" /\ input[4] = 2
    /\ Len(output.emitted) = 3
    /\ \E t \in 1..Len(input[3]) : \E j \in 1..Len(input[3][t]) :
           input[3][t][j][2] = Tombstone /\ input[3][t][j][1] < output.emitted[3][1]
    /\ Cardinality(output.index) = 2
    /\ output.emitted[3][1] \in MapKeys(output.index)

\* A caller of set or delete holds the write guard and waits for the workers
\* mutex; shutdown holds the workers mutex and waits either for the write
\* guard or for tasks that all wait for the write guard.
CircularWait ==
    \E p \in Clients, q \in Clients :
        /\ pc[p] = "w_spawn" /\ writer = p
        /\ workers_lock = q
        /\ \/ pc[q] = "sd_write"
           \/ pc[q] = "sd_join" /\ \A t \in workers : pc[t] = "t_wait"

\* C29: under any interleaving of set and delete calls, spawned flush tasks
\* and a concurrent shutdown(), every call eventually returns: no reachable
\* state holds a circular wait among the writer lock, the lock on the task
\* set and the joining of tasks.
C29_NoCircularWait == ~CircularWait

RECURSIVE SumOver(_, _)
\* The sum of f[1] .. f[n].
SumOver(f, n) == IF n = 0 THEN 0 ELSE f[n] + SumOver(f, n - 1)

\* What the merge has left to do: entries to pop, inputs to open, and the
\* statements of the iteration under way.
MergeMeasure(T, s) ==
    3 * SumOver([t \in 1..Len(T) |-> Len(T[t]) - s.popped[t]], Len(T))
    + 2 * (Len(T) + 1 - s.next)
    + (IF s.phase = "done" THEN 0 ELSE IF s.phase = "popped" THEN 2 ELSE 1)

\* The heap holds at most one entry per input, which is the record of that
\* input after the ones popped and the last one read from it.
HeapHoldsNext(T, s) ==
    /\ \A x, y \in s.heap : x[2] = y[2] => x = y
    /\ \A x \in s.heap :
         /\ s.pos[x[2]] = s.popped[x[2]] + 1
         /\ x = <<T[x[2]][s.pos[x[2]]][1], x[2], T[x[2]][s.pos[x[2]]][2]>>
    /\ \A t \in 1..Len(T) :
         (\A x \in s.heap : x[2] # t) => s.pos[t] = s.popped[t]

\* Every record read so far was read once; at the end every record of every
\* input was read.
ReadOnce(T, s) ==
    /\ \A a, b \in 1..Len(s.log) : s.log[a] = s.log[b] => a = b
    /\ \A a \in 1..Len(s.log) : s.log[a][2] \in 1..Len(T[s.log[a][1]])
    /\ s.phase = "done" =>
           \A t \in 1..Len(T) : \A j \in 1..Len(T[t]) :
               \E a \in 1..Len(s.log) : s.log[a] = <<t, j>>

\* C30: the k-way merge terminates on finite inputs, reads each input record
\* exactly once, and at every step the heap holds at most one entry per
\* input table, that entry being the next unconsumed record of its table.
\* Termination: every statement lowers a measure that is never negative, and
\* a statement can be taken as long as the merge has not returned.
C30_MergeTerminates ==
    /\ [](input[1] = "steps" =>
             /\ HeapHoldsNext(input[2], output)
             /\ ReadOnce(input[2], output)
             /\ MergeMeasure(input[2], output) >= 0
             /\ output.phase # "done" => ENABLED MergeStep)
    /\ [][input[1] = "steps" =>
              MergeMeasure(input[2], output') < MergeMeasure(input[2], output)]_vars

\* The merge returned after it discarded an entry of an older table and
\* dropped a tombstone, on three inputs.
C30_Witness ==
    /\ input[1] = "steps" /\ output.phase = "done"
    /\ Len(input[2]) = 3
    /\ Len(output.log) > Len(output.out) + 1
    /\ \E t \in 1..3 : \E j \in 1..Len(input[2][t]) : input[2][t][j][2] = Tombstone
    /\ output.out # <<>>

\* The statements taken one by one write what compact_sstable_set returns.
StepsAgreeWithMerge ==
    (input[1] = "steps" /\ output.phase = "done") =>
        /\ output.out = compact_sstable_set(input[2]).recs
        /\ output.index = compact_sstable_set(input[2]).index

====
